---- MODULE Spec2Model ----
(***************************************************************************)
(* Model of tower-log (src/tower-log/src/lib.rs): the LogErrors and        *)
(* LogResponses middleware around a Future, a Service or a NewService.     *)
(*                                                                         *)
(* The wrapped instance is arbitrary: every result it returns is a         *)
(* nondeterministic choice.  Each handler of the middleware is one action, *)
(* made of the forwarding call into the inner instance and the log record  *)
(* the handler emits for the result.                                       *)
(***************************************************************************)
EXTENDS Integers, Sequences, FiniteSets, TLC

\* ---------------------------------------------------------------- bounds
MaxOps == 3        \* driving operations (poll, poll_ready, call, new_service)
MaxConf == 1       \* builder calls on the root decorator

\* ---------------------------------------------------------------- inputs
Kinds == {"LogErrors", "LogResponses"}
Shapes == {"Future", "Service", "NewService"}
LevelArgs == {"Warn", "Trace"}
TargetArgs == {"t"}
ModuleArgs == {"m"}
FileArgs == {"f"}
LineArgs == {7}
Requests == {"r1"}
Responses == {"v1", "v2"}
Errors == {"e1", "e2"}
RawServices == {"S1"}

\* ---------------------------------------------------------------- Option
None == <<>>
Some(x) == <<x>>
IsSome(o) == o # None
\* Option::or
OptionOr(a, b) == IF IsSome(a) THEN a ELSE b
\* Option::unwrap_or_else
UnwrapOrElse(a, d) == IF IsSome(a) THEN a[1] ELSE d

\* ------------------------------------------------- Poll<T, E> of futures 0.1
Ready(v) == <<"Ready", v>>
NotReady == <<"NotReady">>
Err(e) == <<"Err", e>>
IsErr(p) == p[1] = "Err"
IsReady(p) == p[1] = "Ready"
IsNotReady(p) == p[1] = "NotReady"

\* What module_path!(), file!() and line!() expand to inside the crate.
OwnModulePath == "tower_log"
OwnFile == "tower-log/src/lib.rs"
LogErrorsOwnLine == 198
LogResponsesOwnLine == 365

\* What module_path!(), file!() and line!() expand to at a log_errors! or
\* log_responses! call site in another crate.
CallSiteModule == "my_crate::my_module"
CallSiteFile == "my_crate/src/my_module.rs"
CallSiteLine == 33

\* The context strings the handlers pass to log_line.
FuturePollContext == "Future::poll"
PollReadyContext == "Service::poll_ready"

\* Renderings done by format_args!: Display of an error, Debug of a value.
DisplayError(e) == "error " \o e
DebugValue(v) == IF v = "()" THEN "()" ELSE "value " \o v
DebugNotReady == "NotReady"

VARIABLES decs, inners, log, made, nconf, nops, last, cnt, setLevel, setNotReady

vars == <<decs, inners, log, made, nconf, nops, last, cnt, setLevel, setNotReady>>

\* ------------------------------------------------------------ constructors
LogErrors_new(shape, inner) ==
    [kind |-> "LogErrors", shape |-> shape, inner |-> inner,
     level |-> "Error",
     target |-> None, module_path |-> None, file |-> None, line |-> None]

\* LogResponses::new with the default level of LogErrors::new.
LogResponses_new_error_level(shape, inner) ==
    [kind |-> "LogResponses", shape |-> shape, inner |-> inner,
     level |-> "Error", not_ready |-> FALSE,
     target |-> None, module_path |-> None, file |-> None, line |-> None]

LogResponses_new(shape, inner) ==
    [kind |-> "LogResponses", shape |-> shape, inner |-> inner,
     level |-> "Debug", not_ready |-> FALSE,
     target |-> None, module_path |-> None, file |-> None, line |-> None]

New(kind, shape, inner) ==
    IF kind = "LogErrors" THEN LogErrors_new(shape, inner)
    ELSE LogResponses_new(shape, inner)

\* ----------------------------------------------------------------- builder
at_level(self, level) == [self EXCEPT !.level = level]

with_target(self, target) == [self EXCEPT !.target = Some(target)]

in_module(self, module_path) == [self EXCEPT !.module_path = Some(module_path)]

at_location(self, file, line) ==
    [self EXCEPT !.file = Some(file), !.line = Some(line)]

log_not_ready(self, not_ready) == [self EXCEPT !.not_ready = not_ready]

\* log_errors!(inner) and log_responses!(inner): the macros' level: arm with
\* the default level of the first arm.
log_errors(shape, inner) ==
    at_level(at_location(in_module(LogErrors_new(shape, inner), CallSiteModule),
                         CallSiteFile, CallSiteLine),
             "Error")

log_responses(shape, inner) ==
    at_level(at_location(in_module(LogResponses_new(shape, inner), CallSiteModule),
                         CallSiteFile, CallSiteLine),
             "Debug")

Macro(kind, shape, inner) ==
    IF kind = "LogErrors" THEN log_errors(shape, inner)
    ELSE log_responses(shape, inner)

\* ------------------------------------------------------------------- child
\* child that builds the new decorator with LogErrors::new.
LogErrors_child_fresh(self, shape, inner) ==
    [kind |-> "LogErrors", shape |-> shape, inner |-> inner,
     level |-> "Error",
     target |-> None, module_path |-> None, file |-> None, line |-> None]

LogErrors_child(self, shape, inner) ==
    [kind |-> "LogErrors", shape |-> shape, inner |-> inner,
     level |-> self.level,
     target |-> self.target, module_path |-> self.module_path,
     file |-> self.file, line |-> self.line]

LogResponses_child(self, shape, inner) ==
    [kind |-> "LogResponses", shape |-> shape, inner |-> inner,
     level |-> self.level, not_ready |-> self.not_ready,
     target |-> self.target, module_path |-> self.module_path,
     file |-> self.file, line |-> self.line]

Child(self, shape, inner) ==
    IF self.kind = "LogErrors" THEN LogErrors_child(self, shape, inner)
    ELSE LogResponses_child(self, shape, inner)

\* ---------------------------------------------------------------- log_line
\* log_line with the two fallback chains exchanged.
LogErrors_log_line_chains_swapped(self, error, context) ==
    [level |-> self.level,
     file |-> OptionOr(self.file, Some(OwnFile)),
     line |-> OptionOr(self.line, Some(LogErrorsOwnLine)),
     target |-> UnwrapOrElse(OptionOr(self.module_path, self.target),
                             OwnModulePath),
     module_path |-> OptionOr(OptionOr(self.target, self.module_path),
                              Some(OwnModulePath)),
     args |-> context \o ": " \o DisplayError(error)]

LogErrors_log_line(self, error, context) ==
    [level |-> self.level,
     file |-> OptionOr(self.file, Some(OwnFile)),
     line |-> OptionOr(self.line, Some(LogErrorsOwnLine)),
     target |-> UnwrapOrElse(OptionOr(self.target, self.module_path),
                             OwnModulePath),
     module_path |-> OptionOr(OptionOr(self.module_path, self.target),
                              Some(OwnModulePath)),
     args |-> context \o ": " \o DisplayError(error)]

LogResponses_log_line(self, resp, context) ==
    [level |-> self.level,
     file |-> OptionOr(self.file, Some(OwnFile)),
     line |-> OptionOr(self.line, Some(LogResponsesOwnLine)),
     target |-> UnwrapOrElse(OptionOr(self.target, self.module_path),
                             OwnModulePath),
     module_path |-> OptionOr(OptionOr(self.module_path, self.target),
                              Some(OwnModulePath)),
     args |-> context \o ": " \o resp]

\* log_poll with the values of its first two arms exchanged.
log_poll_swapped_arms(self, poll, context) ==
    IF IsNotReady(poll) /\ self.not_ready
    THEN [out |-> NotReady,
          recs |-> <<LogResponses_log_line(self, DebugNotReady, context)>>]
    ELSE IF IsReady(poll)
    THEN [out |-> NotReady,
          recs |-> <<LogResponses_log_line(self, DebugValue(poll[2]), context)>>]
    ELSE [out |-> poll, recs |-> <<>>]

\* log_poll takes the Async of an Ok result; it returns the Async handed
\* back (out) and the records emitted on the way (recs).
LogResponses_log_poll(self, poll, context) ==
    IF IsNotReady(poll) /\ self.not_ready
    THEN [out |-> NotReady,
          recs |-> <<LogResponses_log_line(self, DebugNotReady, context)>>]
    ELSE IF IsReady(poll)
    THEN [out |-> Ready(poll[2]),
          recs |-> <<LogResponses_log_line(self, DebugValue(poll[2]), context)>>]
    ELSE [out |-> poll, recs |-> <<>>]

\* ---------------------------------------------------- Future / Service impls
\* res is what self.inner.poll() / self.inner.poll_ready() returned.

\* poll with map in place of map_err: the closure runs on Ok, not on Err.
LogErrors_poll_map(self, res) ==
    IF ~IsErr(res)
    THEN [out |-> res,
          recs |-> <<LogErrors_log_line(self, res[1], FuturePollContext)>>]
    ELSE [out |-> res, recs |-> <<>>]

LogErrors_poll(self, res) ==
    IF IsErr(res)
    THEN [out |-> Err(res[2]),
          recs |-> <<LogErrors_log_line(self, res[2], FuturePollContext)>>]
    ELSE [out |-> res, recs |-> <<>>]

\* poll_ready with the context string of poll.
LogErrors_poll_ready_poll_context(self, res) ==
    IF IsErr(res)
    THEN [out |-> Err(res[2]),
          recs |-> <<LogErrors_log_line(self, res[2], FuturePollContext)>>]
    ELSE [out |-> res, recs |-> <<>>]

LogErrors_poll_ready(self, res) ==
    IF IsErr(res)
    THEN [out |-> Err(res[2]),
          recs |-> <<LogErrors_log_line(self, res[2], PollReadyContext)>>]
    ELSE [out |-> res, recs |-> <<>>]

\* poll that looks at self.not_ready only when the future is Ready.
LogResponses_poll_unguarded(self, res) ==
    IF IsErr(res) THEN [out |-> res, recs |-> <<>>]
    ELSE IF IsNotReady(res)
    THEN [out |-> NotReady,
          recs |-> <<LogResponses_log_line(self, DebugNotReady, FuturePollContext)>>]
    ELSE LogResponses_log_poll(self, res, FuturePollContext)

LogResponses_poll(self, res) ==
    IF IsErr(res) THEN [out |-> res, recs |-> <<>>]
    ELSE LogResponses_log_poll(self, res, FuturePollContext)

\* poll_ready that logs the error as LogErrors does.
LogResponses_poll_ready_logs_err(self, res) ==
    IF IsErr(res)
    THEN [out |-> res,
          recs |-> <<LogResponses_log_line(self, DisplayError(res[2]),
                                           PollReadyContext)>>]
    ELSE LogResponses_log_poll(self, res, PollReadyContext)

LogResponses_poll_ready(self, res) ==
    IF IsErr(res) THEN [out |-> res, recs |-> <<>>]
    ELSE LogResponses_log_poll(self, res, PollReadyContext)

DecPoll(self, res) ==
    IF self.kind = "LogErrors" THEN LogErrors_poll(self, res)
    ELSE LogResponses_poll(self, res)

DecPollReady(self, res) ==
    IF self.kind = "LogErrors" THEN LogErrors_poll_ready(self, res)
    ELSE LogResponses_poll_ready(self, res)

\* ------------------------------------------------------ the wrapped instances
\* A wrapped instance is opaque; the model keeps how many calls were forwarded
\* to it (n), whether a future has completed (done), what a future yields
\* (item: a response or a constructed service) and the request it serves.
Inner(shape, item, req) ==
    [shape |-> shape, n |-> 0, done |-> FALSE, item |-> item, req |-> req]

Items(item) == IF item = "svc" THEN RawServices ELSE Responses

\* Every result an inner Future::poll may return.
PollResults(item) ==
    {NotReady} \cup {Ready(v) : v \in Items(item)} \cup {Err(e) : e \in Errors}

\* Every result an inner Service::poll_ready may return.
ReadyResults == {NotReady, Ready("()")} \cup {Err(e) : e \in Errors}

\* A handler that calls self.inner.poll() a second time.
InnerPollTwice(k, res) ==
    [inners EXCEPT ![k].n = @ + 2, ![k].done = ~IsNotReady(res)]

\* self.inner.poll(): one call into the inner future, which is complete once
\* it has returned anything but NotReady.
InnerPoll(k, res) ==
    [inners EXCEPT ![k].n = @ + 1, ![k].done = ~IsNotReady(res)]

\* self.inner.poll_ready(): one call into the inner service.
InnerPollReady(k) == [inners EXCEPT ![k].n = @ + 1]

\* self.inner.call(req) and self.inner.new_service(): one call into the inner
\* instance, which returns a new future.
InnerSpawn(k, item, req) ==
    Append([inners EXCEPT ![k].n = @ + 1], Inner("Future", item, req))

\* NewService::Service = LogErrors<T::Service> or LogResponses<T::Service>.
NewService_Service_decorated(self, v) ==
    <<"dec", IF self.kind = "LogErrors"
             THEN LogErrors_child(self, "Service", 0)
             ELSE LogResponses_child(self, "Service", 0)>>

\* NewService::Service: the service a decorated factory's construction future
\* resolves to is T::Service, the inner factory's own.
NewService_Service(self, v) == <<"raw", v>>

\* ------------------------------------------------------------ history variables
\* last: the most recent driving operation: the decorator it was invoked on
\* (0: a value from made), what the inner instance returned (res), what the
\* caller got (out), the records emitted (recs), the decorator as it was (cfg)
\* and the log before the operation.
\* cnt[i]: per decorator, the inner results by kind and the records emitted.
\* setLevel[i], setNotReady[i]: the argument of the last at_level and
\* log_not_ready call that decorator i's configuration descends from.
Event(dec, op, res, r, cfg) ==
    [dec |-> dec, op |-> op, res |-> res, out |-> r.out, recs |-> r.recs,
     cfg |-> cfg, logBefore |-> log,
     lvl |-> IF dec > 0 THEN setLevel[dec] ELSE None,
     nr |-> IF dec > 0 THEN setNotReady[dec] ELSE None]

NoCount ==
    [ready |-> 0, not_ready |-> 0, err |-> 0, spawned |-> 0, recs |-> 0,
     stable |-> TRUE]

Count(c, res, r) ==
    [c EXCEPT !.ready = @ + (IF IsReady(res) THEN 1 ELSE 0),
              !.not_ready = @ + (IF IsNotReady(res) THEN 1 ELSE 0),
              !.err = @ + (IF IsErr(res) THEN 1 ELSE 0),
              !.recs = @ + Len(r.recs)]

Init ==
    \E kind \in Kinds, shape \in Shapes, macro \in BOOLEAN, item \in {"resp", "svc"} :
        /\ item = "svc" => shape = "Future"
        /\ decs = <<IF macro THEN Macro(kind, shape, 1) ELSE New(kind, shape, 1)>>
        /\ inners = <<Inner(shape, item, "")>>
        /\ log = <<>>
        /\ made = <<>>
        /\ nconf = 0
        /\ nops = 0
        /\ last = [dec |-> -1, op |-> "none"]
        /\ cnt = <<NoCount>>
        /\ setLevel = <<IF macro
                        THEN Some(IF kind = "LogErrors" THEN "Error" ELSE "Debug")
                        ELSE None>>
        /\ setNotReady = <<None>>

\* ------------------------------------------------- builder calls on the root
Configure(new) ==
    /\ nconf < MaxConf
    /\ decs' = [decs EXCEPT ![1] = new]
    /\ nconf' = nconf + 1
    /\ UNCHANGED <<inners, log, made, nops, last>>

AtLevel ==
    \E level \in LevelArgs :
        /\ Configure(at_level(decs[1], level))
        /\ setLevel' = [setLevel EXCEPT ![1] = Some(level)]
        /\ UNCHANGED <<cnt, setNotReady>>

WithTarget ==
    \E target \in TargetArgs :
        /\ Configure(with_target(decs[1], target))
        /\ UNCHANGED <<cnt, setLevel, setNotReady>>

InModule ==
    \E module_path \in ModuleArgs :
        /\ Configure(in_module(decs[1], module_path))
        /\ UNCHANGED <<cnt, setLevel, setNotReady>>

AtLocation ==
    \E file \in FileArgs, line \in LineArgs :
        /\ Configure(at_location(decs[1], file, line))
        /\ UNCHANGED <<cnt, setLevel, setNotReady>>

LogNotReady ==
    \E not_ready \in BOOLEAN :
        /\ decs[1].kind = "LogResponses"
        /\ Configure(log_not_ready(decs[1], not_ready))
        /\ setNotReady' = [setNotReady EXCEPT ![1] = Some(not_ready)]
        /\ cnt' = [cnt EXCEPT ![1].stable =
                       @ /\ (inners[1].n = 0 \/ not_ready = decs[1].not_ready)]
        /\ UNCHANGED setLevel

\* --------------------------------------------------------- driving operations
\* <LogErrors<T> as Future>::poll and <LogResponses<T> as Future>::poll
Poll(i) ==
    LET self == decs[i]
        k == self.inner
    IN  /\ nops < MaxOps
        /\ self.shape = "Future"
        /\ ~inners[k].done
        /\ \E res \in PollResults(inners[k].item) :
             LET r == DecPoll(self, res)
             IN  /\ inners' = InnerPoll(k, res)
                 /\ log' = log \o r.recs
                 /\ last' = Event(i, "poll", res, r, self)
                 /\ cnt' = [cnt EXCEPT ![i] = Count(@, res, r)]
                 /\ made' = IF inners[k].item = "svc" /\ IsReady(r.out)
                            THEN Append(made, [what |-> "Service",
                                               h |-> NewService_Service(self, r.out[2]),
                                               done |-> FALSE])
                            ELSE made
        /\ nops' = nops + 1
        /\ UNCHANGED <<decs, nconf, setLevel, setNotReady>>

\* <LogErrors<T> as Service>::poll_ready and the LogResponses one
PollReady(i) ==
    LET self == decs[i]
        k == self.inner
    IN  /\ nops < MaxOps
        /\ self.shape = "Service"
        /\ \E res \in ReadyResults :
             LET r == DecPollReady(self, res)
             IN  /\ inners' = InnerPollReady(k)
                 /\ log' = log \o r.recs
                 /\ last' = Event(i, "poll_ready", res, r, self)
                 /\ cnt' = [cnt EXCEPT ![i] = Count(@, res, r)]
        /\ nops' = nops + 1
        /\ UNCHANGED <<decs, made, nconf, setLevel, setNotReady>>

\* Service::call and NewService::new_service: forward, then wrap what the
\* inner instance produced in self.child(..).
Spawn(i, op, item, req) ==
    LET self == decs[i]
        k == self.inner
        f == Len(inners) + 1
        c == Len(decs) + 1
    IN  /\ nops < MaxOps
        /\ inners' = InnerSpawn(k, item, req)
        /\ decs' = Append(decs, Child(self, "Future", f))
        /\ cnt' = Append([cnt EXCEPT ![i].spawned = @ + 1], NoCount)
        /\ setLevel' = Append(setLevel, setLevel[i])
        /\ setNotReady' = Append(setNotReady, setNotReady[i])
        /\ last' = Event(i, op, <<"Future", f>>,
                         [out |-> <<"Future", c>>, recs |-> <<>>], self)
        /\ nops' = nops + 1
        /\ UNCHANGED <<log, made, nconf>>

Call(i) ==
    /\ decs[i].shape = "Service"
    /\ \E req \in Requests : Spawn(i, "call", "resp", req)

NewService(i) ==
    /\ decs[i].shape = "NewService"
    /\ Spawn(i, "new_service", "svc", "")

\* ------------------------- using what a decorated factory finally yielded
\* made holds the values a construction future handed out through the
\* decorator (NewService::Service), and the futures those services return.
\* A handle is driven as what it is: the inner factory's own service, or a
\* decorator around it.
IsRaw(h) == h[1] = "raw"

MadePollReady(j) ==
    LET h == made[j].h
    IN  /\ nops < MaxOps
        /\ made[j].what = "Service"
        /\ \E res \in ReadyResults :
             LET r == IF IsRaw(h) THEN [out |-> res, recs |-> <<>>]
                      ELSE DecPollReady(h[2], res)
             IN  /\ log' = log \o r.recs
                 /\ last' = Event(0, "poll_ready", res, r, h)
        /\ nops' = nops + 1
        /\ UNCHANGED <<decs, inners, made, nconf, cnt, setLevel, setNotReady>>

MadeCall(j) ==
    LET h == made[j].h
    IN  /\ nops < MaxOps
        /\ made[j].what = "Service"
        /\ made' = Append(made, [what |-> "Future",
                                 h |-> IF IsRaw(h) THEN <<"raw", "F">>
                                       ELSE <<"dec", Child(h[2], "Future", 0)>>,
                                 done |-> FALSE])
        /\ last' = Event(0, "call", <<"Future", 0>>,
                         [out |-> <<"Future", 0>>, recs |-> <<>>], h)
        /\ nops' = nops + 1
        /\ UNCHANGED <<decs, inners, log, nconf, cnt, setLevel, setNotReady>>

MadePoll(j) ==
    LET h == made[j].h
    IN  /\ nops < MaxOps
        /\ made[j].what = "Future"
        /\ ~made[j].done
        /\ \E res \in PollResults("resp") :
             LET r == IF IsRaw(h) THEN [out |-> res, recs |-> <<>>]
                      ELSE DecPoll(h[2], res)
             IN  /\ log' = log \o r.recs
                 /\ last' = Event(0, "poll", res, r, h)
                 /\ made' = [made EXCEPT ![j].done = ~IsNotReady(res)]
        /\ nops' = nops + 1
        /\ UNCHANGED <<decs, inners, nconf, cnt, setLevel, setNotReady>>

Next ==
    \/ AtLevel
    \/ WithTarget
    \/ InModule
    \/ AtLocation
    \/ LogNotReady
    \/ \E i \in DOMAIN decs : Poll(i)
    \/ \E i \in DOMAIN decs : PollReady(i)
    \/ \E i \in DOMAIN decs : Call(i)
    \/ \E i \in DOMAIN decs : NewService(i)
    \/ \E j \in DOMAIN made : MadePollReady(j)
    \/ \E j \in DOMAIN made : MadeCall(j)
    \/ \E j \in DOMAIN made : MadePoll(j)

Spec == Init /\ [][Next]_vars

\* ======================================================================
\* Properties
\* ======================================================================
\* The last operation was a poll or poll_ready on a decorator.
Observed == last.dec > 0 /\ last.op \in {"poll", "poll_ready"}

\* The last operation was a call or new_service on a decorator.
Spawned == last.dec > 0 /\ last.op \in {"call", "new_service"}

Polled(i) == cnt[i].ready + cnt[i].not_ready + cnt[i].err

\* C1 (transparency): whatever the inner instance returns from poll or
\* poll_ready, the decorator returns that same result, and the future a
\* decorator returns from call or new_service is a decorator of the same kind
\* around the very future the inner instance returned; so the results seen
\* through the decorator are, one by one and in order, the inner instance's.
Transparency ==
    /\ Observed => last.out = last.res
    /\ Spawned =>
         /\ decs[last.out[2]].inner = last.res[2]
         /\ decs[last.out[2]].kind = last.cfg.kind
         /\ decs[last.out[2]].shape = "Future"

TransparencyWitness ==
    /\ Observed
    /\ last.cfg.kind = "LogResponses"
    /\ IsReady(last.res)
    /\ last.out = last.res
    /\ last.recs # <<>>
    /\ nops = 3

\* C2: a LogErrors decorator has emitted as many records as its inner
\* instance has returned errors: one record for an Err, which is returned as
\* it came, and none for Ready or NotReady.
ErrorsLoggedOncePerErr ==
    /\ \A i \in DOMAIN decs :
         decs[i].kind = "LogErrors" => cnt[i].recs = cnt[i].err
    /\ Observed /\ last.cfg.kind = "LogErrors" =>
         /\ Len(last.recs) = (IF IsErr(last.res) THEN 1 ELSE 0)
         /\ Len(log) = Len(last.logBefore) + Len(last.recs)
         /\ IsErr(last.res) => last.out = last.res

ErrorsLoggedWitness ==
    \E i \in DOMAIN decs :
        /\ decs[i].kind = "LogErrors"
        /\ decs[i].level # "Error"
        /\ cnt[i].err = 1
        /\ cnt[i].recs = 1
        /\ cnt[i].ready + cnt[i].not_ready >= 1

\* C3 (not-ready suppression): a LogResponses decorator whose log_not_ready
\* flag did not change while it was driven has emitted one record per Ready
\* and, if the flag is set, one per NotReady, else none for NotReady; so n
\* NotReady and then one Ready make 1 record with the flag clear and n + 1
\* with it set.  NotReady and Ready are handed to the caller as they came.
NotReadySuppression ==
    /\ \A i \in DOMAIN decs :
         decs[i].kind = "LogResponses" /\ cnt[i].stable =>
             cnt[i].recs = cnt[i].ready
                           + (IF decs[i].not_ready THEN cnt[i].not_ready ELSE 0)
    /\ Observed /\ last.cfg.kind = "LogResponses" /\ ~IsErr(last.res) =>
         /\ last.out = last.res
         /\ Len(last.recs) =
              (IF IsReady(last.res) \/ last.cfg.not_ready THEN 1 ELSE 0)
         /\ Len(log) = Len(last.logBefore) + Len(last.recs)

\* A future polled NotReady twice and then Ready: 3 records with the flag set
\* in one decorator ...
NotReadySuppressionWitness ==
    \E i \in DOMAIN decs :
        /\ decs[i].kind = "LogResponses"
        /\ decs[i].shape = "Future"
        /\ cnt[i].stable
        /\ decs[i].not_ready
        /\ cnt[i].not_ready = 2
        /\ cnt[i].ready = 1
        /\ cnt[i].recs = 3
        /\ Len(log) = 3

\* C4: an Err from the inner instance of a LogResponses decorator is returned
\* as it came and leaves the log as it was.
ResponsesSilentOnErr ==
    Observed /\ last.cfg.kind = "LogResponses" /\ IsErr(last.res) =>
        /\ last.recs = <<>>
        /\ log = last.logBefore
        /\ last.out = last.res

ResponsesSilentOnErrWitness ==
    /\ Observed
    /\ last.op = "poll_ready"
    /\ last.cfg.kind = "LogResponses"
    /\ last.cfg.not_ready
    /\ IsErr(last.res)
    /\ last.out = last.res
    /\ log = last.logBefore

\* The configuration of a decorator: every field but the wrapped instance.
Cfg(d) == [d EXCEPT !.inner = 0, !.shape = ""]

\* C5 (config inheritance): in every step, a decorator created by call or
\* new_service has the configuration its parent had when the step began and
\* wraps the future the inner instance just produced; decorators that exist
\* keep their configuration whatever is done to the parent afterwards; and
\* driving a decorator leaves that decorator's configuration as it was.
ConfigInheritStep ==
    /\ \A i \in DOMAIN decs : i > 1 => decs'[i] = decs[i]
    /\ nops' > nops => \A i \in DOMAIN decs : decs'[i] = decs[i]
    /\ Len(decs') > Len(decs) =>
         LET p == last'.dec
             c == Len(decs')
         IN  /\ c = Len(decs) + 1
             /\ last'.op \in {"call", "new_service"}
             /\ Cfg(decs'[c]) = Cfg(decs[p])
             /\ Len(inners') = Len(inners) + 1
             /\ decs'[c].inner = Len(inners')

ConfigInheritance == [][ConfigInheritStep]_vars

\* A child that carries a configured level and location while its parent
\* has been given another level since.
ConfigInheritanceWitness ==
    \E c \in DOMAIN decs :
        /\ c > 1
        /\ decs[c].module_path = Some(CallSiteModule)
        /\ decs[c].line = Some(CallSiteLine)
        /\ decs[c].level \in {"Error", "Debug"}
        /\ decs[1].level = "Warn"
        /\ Cfg(decs[c]) # Cfg(decs[1])

Rendered(res) ==
    IF IsErr(res) THEN DisplayError(res[2])
    ELSE IF IsReady(res) THEN DebugValue(res[2])
    ELSE DebugNotReady

\* C7 as claimed: the message of a record is "computation poll: <outcome>"
\* when it comes from a poll and "readiness check: <outcome>" when it comes
\* from a readiness check.
MessageContextAsClaimed ==
    Observed /\ last.recs # <<>> =>
        last.recs[1].args =
            (IF last.op = "poll" THEN "computation poll" ELSE "readiness check")
            \o ": " \o Rendered(last.res)

\* C7 amended: the message of a record is "Future::poll: <outcome>" when it
\* comes from a poll and "Service::poll_ready: <outcome>" when it comes from
\* a readiness check, for both decorators.
MessageContext ==
    Observed /\ last.recs # <<>> =>
        last.recs[1].args =
            (IF last.op = "poll" THEN "Future::poll" ELSE "Service::poll_ready")
            \o ": " \o Rendered(last.res)

MessageContextWitness ==
    /\ Observed
    /\ last.op = "poll_ready"
    /\ last.cfg.kind = "LogErrors"
    /\ last.recs # <<>>
    /\ last.recs[1].args = "Service::poll_ready: error e2"

DefaultLevel(kind) == IF kind = "LogErrors" THEN "Error" ELSE "Debug"

LevelFor(kind, lvl) == IF lvl = None THEN DefaultLevel(kind) ELSE lvl[1]

\* C8 (level default and use): a record has the level of the last at_level
\* call that the emitting decorator's configuration descends from, and, with
\* no such call, Error for LogErrors and Debug for LogResponses; a
\* LogResponses decorator on which log_not_ready was never called has the
\* flag clear and emits nothing for NotReady.
LevelDefaultAndUse ==
    /\ last.dec > 0 /\ last.recs # <<>> =>
         last.recs[1].level = LevelFor(last.cfg.kind, last.lvl)
    /\ \A i \in DOMAIN decs :
         /\ decs[i].level = LevelFor(decs[i].kind, setLevel[i])
         /\ decs[i].kind = "LogResponses" /\ setNotReady[i] = None =>
              ~decs[i].not_ready
    /\ Observed /\ last.cfg.kind = "LogResponses" /\ last.nr = None
         /\ IsNotReady(last.res) => last.recs = <<>>

\* A child of a decorator set to Warn emits a record at Warn.
LevelDefaultAndUseWitness ==
    /\ last.dec > 1
    /\ last.recs # <<>>
    /\ last.lvl = Some("Warn")
    /\ last.recs[1].level = "Warn"

RECURSIVE SumRecs(_)
SumRecs(n) == IF n = 0 THEN 0 ELSE cnt[n].recs + SumRecs(n - 1)

\* C9: every operation on a decorator is one call of that operation on its
\* inner instance; what the operation emits is appended to the log within
\* the operation, at most one record, describing the result of that very
\* call; and the result is returned by that same operation.
ForwardOnceInOrder ==
    /\ \A i \in DOMAIN decs :
         inners[decs[i].inner].n = Polled(i) + cnt[i].spawned
    /\ Len(inners) = Len(decs)
    /\ Len(log) = SumRecs(Len(cnt))
    /\ last.dec > 0 =>
         /\ log = last.logBefore \o last.recs
         /\ Len(last.recs) <= 1
    /\ Observed =>
         /\ last.out = last.res
         /\ last.recs # <<>> =>
              \E ctx \in {FuturePollContext, PollReadyContext} :
                  last.recs[1].args = ctx \o ": " \o Rendered(last.res)

\* Three operations on one future, two of them logged, in the order of the
\* results.
ForwardOnceInOrderWitness ==
    /\ Observed
    /\ inners[last.cfg.inner].n = 3
    /\ Len(log) = 2
    /\ log[1].args = "Future::poll: NotReady"
    /\ log[2].args = "Future::poll: value v2"
    /\ last.res = Ready("v2")

\* C10: what a decorated factory's construction future yields is the inner
\* factory's own service, so nothing done with that service, or with the
\* futures it returns, emits a record; of a construction future LogErrors
\* logs the error and LogResponses the constructed service.
FactoryYieldsInnerService ==
    /\ \A j \in DOMAIN made : IsRaw(made[j].h)
    /\ last.dec = 0 =>
         /\ last.recs = <<>>
         /\ log = last.logBefore
         /\ last.out = last.res
    /\ Observed /\ inners[last.cfg.inner].item = "svc" =>
         /\ last.cfg.kind = "LogErrors" =>
              Len(last.recs) = (IF IsErr(last.res) THEN 1 ELSE 0)
         /\ last.cfg.kind = "LogResponses" /\ IsReady(last.res) =>
              /\ Len(last.recs) = 1
              /\ last.out[2] \in RawServices

\* A service obtained from a LogResponses-decorated construction future
\* (logged once) is called and its response future fails: still one record.
FactoryYieldsInnerServiceWitness ==
    /\ last.dec = 0
    /\ last.op = "poll"
    /\ IsErr(last.res)
    /\ Len(log) = 1
    /\ log[1].args = "Future::poll: value S1"

====
